---- MODULE Spec2Model ----
(***************************************************************************)
(* Model of es_todo (src/es_todo/application/base.py): an event-sourced    *)
(* todo-list application built on the eventsourcing library.               *)
(*                                                                         *)
(* The shared state is the event store (one table of sequenced items keyed *)
(* by (originator_id, originator_version)).  Every access to the store is  *)
(* one atomic step, so concurrent callers interleave between the load, the *)
(* append and the steps of the projection policy.                          *)
(*                                                                         *)
(* Spec: the clients call the application services of TodoApp.  A service  *)
(* loads the list, issues one command and saves; the aggregate object is   *)
(* local to the call.                                                      *)
(* SpecAggregate: one caller uses the todo_lists repository and the        *)
(* TodoList object directly: it loads, issues any commands and saves, and  *)
(* keeps the object as long as save() raises nothing.                      *)
(* SpecObjects: concurrent callers of the repository, each working on its  *)
(* own TodoList object (load, add_item, discard, save).                    *)
(* SpecLifecycle: callers of the services of an application that is closed *)
(* (TodoApp.close) and constructed anew; the subscriptions of the library  *)
(* are the state close() changes.                                          *)
(***************************************************************************)
EXTENDS Integers, Sequences, FiniteSets, TLC

\* Bounds of the model.
NumClients == 2
NumOwners == 2
NumItems == 2
MaxLists == 2
MaxVersion == 4
MaxPending == 2
MaxIndex == 1
MaxEvents == 6
MaxStored == 5
MaxApps == 2

\* uuid namespace of the user list collections (base.py 13).
USER_LIST_COLLECTION_NS == 100

Clients == 1..NumClients
Owners == 1..NumOwners
Items == 1..NumItems
ListIds == 1..MaxLists
Indexes == (0 - MaxIndex)..MaxIndex

VARIABLES
    store,      \* the sequenced item table: a set of committed events
    next_id,    \* the next originator id uuid4() hands out
    lazy_map,   \* TRUE when map() is lazy (Python 3), FALSE when eager (Python 2)
    entity,     \* entity[c]: the TodoList object client c holds (kind "None": no object)
    seen,       \* seen[c]: how many committed events of its list entity[c] reflects
    pc,         \* pc[c]: where client c stands inside a call
    call,       \* call[c]: the call client c is inside of
    queue,      \* queue[c]: the events the projection policy still has to handle
    coll,       \* coll[c]: the Collection object the policy has loaded
    last,       \* the call that returned in the last step, and its outcome
    registry,   \* the subscriptions of the library: pairs <<TodoApp instance, handler>>
    app         \* the TodoApp object: its instance number, and whether close() was called

vars == <<store, next_id, lazy_map, entity, seen, pc, call, queue, coll, last, registry, app>>

----------------------------------------------------------------------------
\* Domain events.  A single record shape is used for every event class.

NewEvent(cls, id, version, user_id, index, item) ==
    [cls |-> cls, originator_id |-> id, originator_version |-> version,
     user_id |-> user_id, index |-> index, item |-> item]

\* Created events carry originator_version 0.
Started(id, user_id) == NewEvent("Started", id, 0, user_id, 0, 0)

NoEntity ==
    [kind |-> "None", id |-> 0, user_id |-> 0, items |-> <<>>, version |-> 0,
     is_discarded |-> FALSE, pending_events |-> <<>>]

\* An exception raised while replaying (IndexError, AttributeError).
BrokenEntity == [NoEntity EXCEPT !.kind = "Error"]

\* TodoList.__init__ called with the attributes of the Started event.
TodoList(id, version, user_id) ==
    [kind |-> "TodoList", id |-> id, user_id |-> user_id, items |-> <<>>,
     version |-> version, is_discarded |-> FALSE, pending_events |-> <<>>]

\* Faulty variant: the version skips a number.
increment_version_twice(e) == [e EXCEPT !.version = e.version + 2]

increment_version(e) == [e EXCEPT !.version = e.version + 1]

\* Python list indexing: position of index i in a list of length n (1-based),
\* 0 when list[i] raises IndexError.
ListPos(n, i) ==
    IF i >= 0 /\ i < n THEN i + 1
    ELSE IF i < 0 /\ i + n >= 0 THEN i + n + 1
    ELSE 0

ListSet(s, p, x) == [s EXCEPT ![p] = x]

ListPop(s, p) == [k \in 1..(Len(s) - 1) |-> IF k < p THEN s[k] ELSE s[k + 1]]

\* TRUE when event.mutate(entity) raises.
MutateRaises(e, ev) ==
    \/ ev.cls = "Started" /\ e.kind # "None"
    \/ ev.cls \in {"ItemAdded", "ItemUpdated", "ItemDiscarded", "Discarded"}
       /\ e.kind # "TodoList"
    \/ ev.cls \in {"ItemUpdated", "ItemDiscarded"}
       /\ e.kind = "TodoList" /\ ListPos(Len(e.items), ev.index) = 0

\* Faulty variant: the new entity keeps the version of its Started event.
Started_mutate_unversioned(ev) ==
    TodoList(ev.originator_id, ev.originator_version, ev.user_id)

Started_mutate(ev) ==
    increment_version(TodoList(ev.originator_id, ev.originator_version, ev.user_id))

ItemAdded_mutate(e, ev) ==
    increment_version([e EXCEPT !.items = Append(e.items, ev.item)])

ItemUpdated_mutate(e, ev) ==
    increment_version(
        [e EXCEPT !.items = ListSet(e.items, ListPos(Len(e.items), ev.index), ev.item)])

\* Faulty variant: items.pop() without the index removes the last item.
ItemDiscarded_mutate_last(e, ev) ==
    increment_version([e EXCEPT !.items = ListPop(e.items, Len(e.items))])

ItemDiscarded_mutate(e, ev) ==
    increment_version(
        [e EXCEPT !.items = ListPop(e.items, ListPos(Len(e.items), ev.index))])

\* Faulty variant: the version is incremented, as every other mutate does.
Discarded_mutate_versioned(e, ev) == increment_version([e EXCEPT !.is_discarded = TRUE])

\* Discarded.mutate flags the object it is given and returns None.
Discarded_mutate(e, ev) == [e EXCEPT !.is_discarded = TRUE]

\* The object as event.mutate(entity) leaves it (the entity is mutated in place).
MutateObject(e, ev) ==
    CASE ev.cls = "Started" -> Started_mutate(ev)
      [] ev.cls = "ItemAdded" -> ItemAdded_mutate(e, ev)
      [] ev.cls = "ItemUpdated" -> ItemUpdated_mutate(e, ev)
      [] ev.cls = "ItemDiscarded" -> ItemDiscarded_mutate(e, ev)
      [] ev.cls = "Discarded" -> Discarded_mutate(e, ev)
      [] OTHER -> BrokenEntity

\* Faulty variant: every mutate returns the entity, Discarded included.
MutateReturn_object(e, ev) == MutateObject(e, ev)

\* What event.mutate(entity) returns.
MutateReturn(e, ev) ==
    IF ev.cls = "Discarded" THEN NoEntity ELSE MutateObject(e, ev)

\* TodoList._mutate(initial, event) of the reflexive mutator, as the
\* repository folds it over a stream.
TodoList_mutate(initial, ev) ==
    IF initial.kind = "Error" \/ MutateRaises(initial, ev)
    THEN BrokenEntity
    ELSE MutateReturn(initial, ev)

----------------------------------------------------------------------------
\* The event store behind entity_event_store: IntegerSequencedItemRecord
\* rows, unique on (originator_id, originator_version).

Position(ev) == <<ev.originator_id, ev.originator_version>>

SeqToSet(s) == {s[k] : k \in 1..Len(s)}

\* Faulty variant: only the positions of the batch itself are compared.
AppendConflict_within_batch(st, events) ==
    \E j, k \in 1..Len(events) : j # k /\ Position(events[j]) = Position(events[k])

\* TRUE when writing the events raises ConcurrencyError: a position is
\* taken already, or is written twice by the batch.  Nothing is written then.
AppendConflict(st, events) ==
    \/ \E k \in 1..Len(events) : \E s \in st : Position(s) = Position(events[k])
    \/ \E j, k \in 1..Len(events) : j # k /\ Position(events[j]) = Position(events[k])

AppendEvents(st, events) == st \cup SeqToSet(events)

RECURSIVE SortByVersion(_)
SortByVersion(S) ==
    IF S = {} THEN <<>>
    ELSE LET m == CHOOSE e \in S :
                      \A f \in S : e.originator_version <= f.originator_version
         IN  <<m>> \o SortByVersion(S \ {m})

\* The events of one originator, in ascending position order.
GetDomainEvents(st, id) == SortByVersion({e \in st : e.originator_id = id})

RECURSIVE ReplayEvents(_, _)
ReplayEvents(initial, events) ==
    IF events = <<>> THEN initial
    ELSE ReplayEvents(TodoList_mutate(initial, Head(events)), Tail(events))

\* todo_lists.get_entity(id): the fold of the stream from no state.
ReplayTodoList(st, id) == ReplayEvents(NoEntity, GetDomainEvents(st, id))

\* What todo_lists[id] raises: KeyError when the replay yields None.
LoadError(r) ==
    IF r.kind = "None" THEN "KeyError" ELSE IF r.kind = "Error" THEN "Error" ELSE "ok"

----------------------------------------------------------------------------
\* The Collection entity of the library and its repository.

\* Faulty variant: the owner is left out of the collection id.
make_user_list_collection_id_shared(user_id) == USER_LIST_COLLECTION_NS

make_user_list_collection_id(user_id) == USER_LIST_COLLECTION_NS + user_id

NoCollection == [kind |-> "None", id |-> 0, items |-> {}, version |-> 0]

BrokenCollection == [NoCollection EXCEPT !.kind = "Error"]

CollectionCreated(id) == NewEvent("Collection.Created", id, 0, 0, 0, 0)

\* Faulty variant: the id of the collection is added instead of the list's.
CollectionItemAdded_own_id(c, item) ==
    NewEvent("Collection.ItemAdded", c.id, c.version, 0, 0, c.id)

CollectionItemAdded(c, item) ==
    NewEvent("Collection.ItemAdded", c.id, c.version, 0, 0, item)

CollectionItemRemoved(c, item) ==
    NewEvent("Collection.ItemRemoved", c.id, c.version, 0, 0, item)

\* collection_mutator: set.remove raises KeyError for a missing member.
collection_mutator(initial, ev) ==
    CASE initial.kind = "Error" -> BrokenCollection
      [] ev.cls = "Collection.Created" /\ initial.kind = "None" ->
            [kind |-> "Collection", id |-> ev.originator_id, items |-> {},
             version |-> ev.originator_version + 1]
      [] ev.cls = "Collection.ItemAdded" /\ initial.kind = "Collection" ->
            [initial EXCEPT !.items = @ \cup {ev.item}, !.version = @ + 1]
      [] ev.cls = "Collection.ItemRemoved" /\ initial.kind = "Collection"
            /\ ev.item \in initial.items ->
            [initial EXCEPT !.items = @ \ {ev.item}, !.version = @ + 1]
      [] OTHER -> BrokenCollection

RECURSIVE ReplayCollectionEvents(_, _)
ReplayCollectionEvents(initial, events) ==
    IF events = <<>> THEN initial
    ELSE ReplayCollectionEvents(collection_mutator(initial, Head(events)), Tail(events))

\* user_list_collections.get_entity(collection_id).
ReplayCollection(st, id) == ReplayCollectionEvents(NoCollection, GetDomainEvents(st, id))

----------------------------------------------------------------------------
\* Application queries.

\* get_todo_list_ids: a KeyError of the repository lookup gives the empty list.
get_todo_list_ids(st, user_id) ==
    LET collection == ReplayCollection(st, make_user_list_collection_id(user_id))
    IN  IF collection.kind = "Collection" THEN collection.items ELSE {}

\* get_todo_items: the items of the list as loaded from the repository.
get_todo_items(st, id) == ReplayTodoList(st, id).items

----------------------------------------------------------------------------
\* The subscriptions: publish(event) calls, in subscription order, every
\* subscribed handler whose predicate accepts the event.

PolicyHandlers == {"add_list_to_collection", "remove_list_from_collection"}

Handlers == {"store_event"} \cup PolicyHandlers

\* TodoApp.__init__: the persistence policy subscribes store_event, then the
\* projection policy subscribes its two handlers.
Subscriptions(instance) == {<<instance, h>> : h \in Handlers}

Subscribed(h) == \E s \in registry : s[2] = h

\* The persistence policy, when subscribed, writes the published events.
PublishConflict(events) == Subscribed("store_event") /\ AppendConflict(store, events)

\* Faulty variant: the handlers are called with events nobody wrote.
Published_unwritten(events) == store

Published(events) ==
    IF Subscribed("store_event") THEN AppendEvents(store, events) ELSE store

----------------------------------------------------------------------------
\* The state after construction: an empty store, no caller inside a call.

\* Client c has returned from op on the list id: normally when res is "ok",
\* else with the exception res.
Outcome(c, op, id, res) == [client |-> c, op |-> op, id |-> id, res |-> res]

\* No call returned in the last step.
NoOutcome == Outcome(0, "none", 0, "ok")

Init ==
    /\ store = {}
    /\ next_id = 1
    /\ lazy_map \in BOOLEAN
    /\ entity = [c \in Clients |-> NoEntity]
    /\ seen = [c \in Clients |-> 0]
    /\ pc = [c \in Clients |-> "idle"]
    /\ call = [c \in Clients |-> "none"]
    /\ queue = [c \in Clients |-> <<>>]
    /\ coll = [c \in Clients |-> NoCollection]
    /\ last = NoOutcome
    /\ registry = Subscriptions(1)
    /\ app = [instance |-> 1, closed |-> FALSE]

\* The call op of client c on the list id ends with outcome res.  The
\* aggregate object of the call is gone when an exception left save(), or
\* when the object was local to an application service.
Return(c, op, id, res) ==
    /\ pc' = [pc EXCEPT ![c] = "idle"]
    /\ call' = [call EXCEPT ![c] = "none"]
    /\ queue' = [queue EXCEPT ![c] = <<>>]
    /\ coll' = [coll EXCEPT ![c] = NoCollection]
    /\ last' = Outcome(c, op, id, res)
    /\ IF op # "start_todo_list" /\ (res # "ok" \/ op # "save")
       THEN /\ entity' = [entity EXCEPT ![c] = NoEntity]
            /\ seen' = [seen EXCEPT ![c] = 0]
       ELSE UNCHANGED <<entity, seen>>

----------------------------------------------------------------------------
\* The commands of the aggregate.

_construct_event(e, cls, user_id, index, item) ==
    NewEvent(cls, e.id, e.version, user_id, index, item)

\* Faulty variant: the version is incremented before the statement that raises.
MutateFailed_versioned(e, ev) == increment_version(e)

\* The object as a mutate that raises leaves it: items[index] = item and
\* items.pop(index) raise before anything is changed.
MutateFailed(e, ev) == e

\* Faulty variant: the event is applied but not staged.
_apply_and_publish_unstaged(e, ev) ==
    IF MutateRaises(e, ev) THEN MutateFailed(e, ev) ELSE MutateObject(e, ev)

\* The entity after _apply_and_publish(event): mutated and the event staged,
\* or, when the mutation raises, as the mutation left it and nothing staged.
_apply_and_publish(e, ev) ==
    IF MutateRaises(e, ev) THEN MutateFailed(e, ev)
    ELSE [MutateObject(e, ev) EXCEPT !.pending_events = Append(e.pending_events, ev)]

\* The event each command constructs on entity e.
ItemAdded(e, item) == _construct_event(e, "ItemAdded", 0, 0, item)

ItemUpdated(e, index, item) == _construct_event(e, "ItemUpdated", 0, index, item)

ItemDiscarded(e, index) == _construct_event(e, "ItemDiscarded", 0, index, 0)

Discarded(e) == _construct_event(e, "Discarded", e.user_id, 0, 0)

\* Client c, holding a TodoList object, issues the command that constructs ev.
Command(c, op, ev) ==
    /\ pc[c] = "idle"
    /\ entity[c].kind = "TodoList"
    /\ entity[c].version < MaxVersion
    /\ Len(entity[c].pending_events) < MaxPending
    /\ Cardinality(store) + Len(entity[c].pending_events) < MaxEvents
    /\ entity' = [entity EXCEPT ![c] = _apply_and_publish(entity[c], ev)]
    /\ last' = Outcome(c, op, entity[c].id,
                        IF MutateRaises(entity[c], ev) THEN "IndexError" ELSE "ok")
    /\ UNCHANGED <<store, next_id, lazy_map, registry, app, seen, pc, call, queue, coll>>

add_item(c, item) == Command(c, "add_item", ItemAdded(entity[c], item))

update_item(c, index, item) ==
    Command(c, "update_item", ItemUpdated(entity[c], index, item))

discard_item(c, index) == Command(c, "discard_item", ItemDiscarded(entity[c], index))

discard(c) == Command(c, "discard", Discarded(entity[c]))

\* todo_list = self.todo_lists[todo_list_id], by a caller of the repository.
Load(c, id) ==
    /\ pc[c] = "idle"
    /\ LET r == ReplayTodoList(store, id)
       IN  /\ IF r.kind = "TodoList"
              THEN /\ entity' = [entity EXCEPT ![c] = r]
                   /\ seen' = [seen EXCEPT ![c] = Len(GetDomainEvents(store, id))]
              ELSE UNCHANGED <<entity, seen>>
           /\ last' = Outcome(c, "load", id, LoadError(r))
    /\ UNCHANGED <<store, next_id, lazy_map, registry, app, pc, call, queue, coll>>

----------------------------------------------------------------------------
\* The predicates of the projection policy, on one event or on a batch.

is_list_started(events) == \A k \in 1..Len(events) : events[k].cls = "Started"

is_list_discarded(events) == \A k \in 1..Len(events) : events[k].cls = "Discarded"

\* Faulty variant: save() publishes the batch even when it is empty; both
\* predicates of the policy accept an empty batch (all() of nothing), and
\* add_list_to_collection asserts on it.
SaveEntity_publish_empty(c, op) ==
    LET batch == entity[c].pending_events
        id == entity[c].id
    IN  IF PublishConflict(batch)
        THEN /\ Return(c, op, id, "ConcurrencyError")
             /\ UNCHANGED store
        ELSE /\ store' = Published(batch)
             /\ IF is_list_started(batch) /\ Subscribed("add_list_to_collection")
                THEN Return(c, op, id, "AssertionError")
                ELSE IF /\ is_list_discarded(batch)
                        /\ Subscribed("remove_list_from_collection")
                        /\ ~lazy_map
                THEN /\ entity' = [entity EXCEPT ![c].pending_events = <<>>]
                     /\ seen' = [seen EXCEPT ![c] = @ + Len(batch)]
                     /\ pc' = [pc EXCEPT ![c] = "remove_load"]
                     /\ call' = [call EXCEPT ![c] = op]
                     /\ queue' = [queue EXCEPT ![c] = batch]
                     /\ last' = NoOutcome
                     /\ UNCHANGED coll
                ELSE IF op = "save"
                THEN /\ entity' = [entity EXCEPT ![c].pending_events = <<>>]
                     /\ seen' = [seen EXCEPT ![c] = @ + Len(batch)]
                     /\ last' = Outcome(c, op, id, "ok")
                     /\ UNCHANGED <<pc, call, queue, coll>>
                ELSE Return(c, op, id, "ok")

\* todo_list.save() in the call op: the pending events are popped and, when
\* there are any, published as one batch: the persistence policy writes the
\* batch, then the projection handlers whose predicate accepts it are called.
\* remove_list_from_collection(batch) returns map(...) over the batch: a lazy
\* map calls nothing, an eager map handles the events one by one.
SaveEntity(c, op) ==
    LET batch == entity[c].pending_events
        id == entity[c].id
    IN  IF batch = <<>>
        THEN /\ Return(c, op, id, "ok")
             /\ UNCHANGED store
        ELSE IF PublishConflict(batch)
        THEN /\ Return(c, op, id, "ConcurrencyError")
             /\ UNCHANGED store
        ELSE /\ store' = Published(batch)
             /\ IF is_list_started(batch) /\ Subscribed("add_list_to_collection")
                THEN Return(c, op, id, "AssertionError")
                ELSE IF /\ is_list_discarded(batch)
                        /\ Subscribed("remove_list_from_collection")
                        /\ ~lazy_map
                THEN /\ entity' = [entity EXCEPT ![c].pending_events = <<>>]
                     /\ seen' = [seen EXCEPT ![c] = @ + Len(batch)]
                     /\ pc' = [pc EXCEPT ![c] = "remove_load"]
                     /\ call' = [call EXCEPT ![c] = op]
                     /\ queue' = [queue EXCEPT ![c] = batch]
                     /\ last' = NoOutcome
                     /\ UNCHANGED coll
                ELSE IF op = "save"
                THEN /\ entity' = [entity EXCEPT ![c].pending_events = <<>>]
                     /\ seen' = [seen EXCEPT ![c] = @ + Len(batch)]
                     /\ last' = Outcome(c, op, id, "ok")
                     /\ UNCHANGED <<pc, call, queue, coll>>
                ELSE Return(c, op, id, "ok")

\* todo_list.save() by a caller that holds the object.
save(c) ==
    /\ pc[c] = "idle"
    /\ entity[c].kind = "TodoList"
    /\ SaveEntity(c, "save")
    /\ UNCHANGED <<next_id, lazy_map, registry, app>>

----------------------------------------------------------------------------
\* The application services: load, one command, save.

\* The first half of a service: the list is loaded and the command issued.
\* KeyError of the repository or IndexError of the mutation end the call.
Service(c, op, id, ev) ==
    /\ pc[c] = "idle"
    /\ LET r == ReplayTodoList(store, id)
       IN  /\ r.version < MaxVersion
           /\ Cardinality(store) < MaxStored
           /\ IF r.kind # "TodoList"
              THEN Return(c, op, id, LoadError(r))
              ELSE IF MutateRaises(r, ev)
              THEN Return(c, op, id, "IndexError")
              ELSE /\ entity' = [entity EXCEPT ![c] = _apply_and_publish(r, ev)]
                   /\ seen' = [seen EXCEPT ![c] = Len(GetDomainEvents(store, id))]
                   /\ pc' = [pc EXCEPT ![c] = "save"]
                   /\ call' = [call EXCEPT ![c] = op]
                   /\ last' = NoOutcome
                   /\ UNCHANGED <<queue, coll>>
    /\ UNCHANGED <<store, next_id, lazy_map, registry, app>>

add_todo_item(c, id, item) ==
    Service(c, "add_todo_item", id, ItemAdded(ReplayTodoList(store, id), item))

update_todo_item(c, id, index, item) ==
    Service(c, "update_todo_item", id, ItemUpdated(ReplayTodoList(store, id), index, item))

discard_todo_item(c, id, index) ==
    Service(c, "discard_todo_item", id, ItemDiscarded(ReplayTodoList(store, id), index))

discard_todo_list(c, id) ==
    Service(c, "discard_todo_list", id, Discarded(ReplayTodoList(store, id)))

\* The second half of a service: todo_list.save().
service_save(c) ==
    /\ pc[c] = "save"
    /\ SaveEntity(c, call[c])
    /\ UNCHANGED <<next_id, lazy_map, registry, app>>

----------------------------------------------------------------------------
\* start_todo_list and the steps of add_list_to_collection.

\* The Started event of a new list is applied and published: the persistence
\* policy writes it (the id is fresh), then add_list_to_collection is called.
\* With no handler subscribed the id is returned at once.
start_todo_list(c, user_id) ==
    /\ pc[c] = "idle"
    /\ next_id <= MaxLists
    /\ LET event == Started(next_id, user_id)
       IN  /\ store' = Published(<<event>>)
           /\ IF Subscribed("add_list_to_collection")
              THEN /\ queue' = [queue EXCEPT ![c] = <<event>>]
                   /\ pc' = [pc EXCEPT ![c] = "add_load"]
                   /\ call' = [call EXCEPT ![c] = "start_todo_list"]
                   /\ last' = NoOutcome
                   /\ UNCHANGED <<entity, seen, coll>>
              ELSE Return(c, "start_todo_list", next_id, "ok")
    /\ next_id' = next_id + 1
    /\ UNCHANGED <<lazy_map, registry, app>>

\* collection = self.user_list_collections[collection_id], KeyError caught.
add_load(c) ==
    /\ pc[c] = "add_load"
    /\ LET r == ReplayCollection(store, make_user_list_collection_id(Head(queue[c]).user_id))
       IN  IF r.kind = "Collection"
           THEN /\ coll' = [coll EXCEPT ![c] = r]
                /\ pc' = [pc EXCEPT ![c] = "add_item"]
           ELSE /\ pc' = [pc EXCEPT ![c] = "add_register"]
                /\ UNCHANGED coll
    /\ last' = NoOutcome
    /\ UNCHANGED <<store, next_id, lazy_map, registry, app, entity, seen, call, queue>>

\* register_new_collection(collection_id): the Created event is published.
add_register(c) ==
    /\ pc[c] = "add_register"
    /\ LET event == CollectionCreated(make_user_list_collection_id(Head(queue[c]).user_id))
       IN  IF PublishConflict(<<event>>)
           THEN /\ Return(c, call[c], Head(queue[c]).originator_id, "ConcurrencyError")
                /\ UNCHANGED store
           ELSE /\ store' = Published(<<event>>)
                /\ coll' = [coll EXCEPT ![c] = collection_mutator(NoCollection, event)]
                /\ pc' = [pc EXCEPT ![c] = "add_item"]
                /\ last' = NoOutcome
                /\ UNCHANGED <<entity, seen, call, queue>>
    /\ UNCHANGED <<next_id, lazy_map, registry, app>>

\* collection.add_item(event.originator_id): ItemAdded is applied and published.
add_list_to_collection(c) ==
    /\ pc[c] = "add_item"
    /\ LET event == CollectionItemAdded(coll[c], Head(queue[c]).originator_id)
       IN  IF PublishConflict(<<event>>)
           THEN /\ Return(c, call[c], Head(queue[c]).originator_id, "ConcurrencyError")
                /\ UNCHANGED store
           ELSE /\ store' = Published(<<event>>)
                /\ Return(c, call[c], Head(queue[c]).originator_id, "ok")
    /\ UNCHANGED <<next_id, lazy_map, registry, app>>

----------------------------------------------------------------------------
\* The steps of remove_list_from_collection for the events of a batch.

\* The handler goes on with the rest of the batch, or save() returns.
NextInBatch(c) ==
    IF Tail(queue[c]) = <<>>
    THEN Return(c, call[c], Head(queue[c]).originator_id, "ok")
    ELSE /\ queue' = [queue EXCEPT ![c] = Tail(queue[c])]
         /\ pc' = [pc EXCEPT ![c] = "remove_load"]
         /\ coll' = [coll EXCEPT ![c] = NoCollection]
         /\ last' = NoOutcome
         /\ UNCHANGED <<entity, seen, call>>

\* collection = self.user_list_collections[collection_id]; KeyError: pass.
remove_load(c) ==
    /\ pc[c] = "remove_load"
    /\ LET r == ReplayCollection(store, make_user_list_collection_id(Head(queue[c]).user_id))
       IN  IF r.kind = "Collection"
           THEN /\ coll' = [coll EXCEPT ![c] = r]
                /\ pc' = [pc EXCEPT ![c] = "remove_item"]
                /\ last' = NoOutcome
                /\ UNCHANGED <<entity, seen, call, queue>>
           ELSE NextInBatch(c)
    /\ UNCHANGED <<store, next_id, lazy_map, registry, app>>

\* collection.remove_item(event.originator_id): KeyError for a missing
\* member, else ItemRemoved is applied and published.
remove_list_from_collection(c) ==
    /\ pc[c] = "remove_item"
    /\ LET item == Head(queue[c]).originator_id
           event == CollectionItemRemoved(coll[c], item)
       IN  IF item \notin coll[c].items
           THEN /\ Return(c, call[c], item, "KeyError")
                /\ UNCHANGED store
           ELSE IF PublishConflict(<<event>>)
           THEN /\ Return(c, call[c], item, "ConcurrencyError")
                /\ UNCHANGED store
           ELSE /\ store' = Published(<<event>>)
                /\ NextInBatch(c)
    /\ UNCHANGED <<next_id, lazy_map, registry, app>>

----------------------------------------------------------------------------
\* The steps of the projection policy, shared by both specifications.
Projection(c) ==
    \/ add_load(c)
    \/ add_register(c)
    \/ add_list_to_collection(c)
    \/ remove_load(c)
    \/ remove_list_from_collection(c)

\* Concurrent callers of the application services.
Next ==
    \/ \E c \in Clients, user_id \in Owners : start_todo_list(c, user_id)
    \/ \E c \in Clients, id \in ListIds, item \in Items : add_todo_item(c, id, item)
    \/ \E c \in Clients, id \in ListIds, index \in Indexes, item \in Items :
          update_todo_item(c, id, index, item)
    \/ \E c \in Clients, id \in ListIds, index \in Indexes : discard_todo_item(c, id, index)
    \/ \E c \in Clients, id \in ListIds : discard_todo_list(c, id)
    \/ \E c \in Clients : service_save(c)
    \/ \E c \in Clients : Projection(c)

Spec == Init /\ [][Next]_vars

\* One caller of the repository and of the aggregate.
NextAggregate ==
    \/ \E user_id \in Owners : start_todo_list(1, user_id)
    \/ \E id \in ListIds : Load(1, id)
    \/ \E item \in Items : add_item(1, item)
    \/ \E index \in Indexes, item \in Items : update_item(1, index, item)
    \/ \E index \in Indexes : discard_item(1, index)
    \/ discard(1)
    \/ save(1)
    \/ Projection(1)

SpecAggregate == Init /\ [][NextAggregate]_vars

----------------------------------------------------------------------------
\* The life cycle of the application object.

\* Faulty variant: each handler is unsubscribed with the predicate of the
\* other, so no subscribed pair is found and none is removed.
UserListProjectionPolicy_close_mismatched(reg, instance) == reg

\* UserListProjectionPolicy.close: both (handler, predicate) pairs leave.
UserListProjectionPolicy_close(reg, instance) ==
    reg \ {<<instance, h>> : h \in PolicyHandlers}

\* close() of the library's application: the persistence policy leaves.
PersistencePolicy_close(reg, instance) == reg \ {<<instance, "store_event">>}

\* TodoApp.close(), by a caller that is inside no other call.
close(c) ==
    /\ pc[c] = "idle"
    /\ registry' = UserListProjectionPolicy_close(
                       PersistencePolicy_close(registry, app.instance), app.instance)
    /\ app' = [app EXCEPT !.closed = TRUE]
    /\ last' = Outcome(c, "close", 0, "ok")
    /\ UNCHANGED <<store, next_id, lazy_map, entity, seen, pc, call, queue, coll>>

\* TodoApp(session): another application object is constructed, on the same
\* database, once the previous one was closed.
TodoApp(c) ==
    /\ pc[c] = "idle"
    /\ app.closed
    /\ app.instance < MaxApps
    /\ registry' = registry \cup Subscriptions(app.instance + 1)
    /\ app' = [instance |-> app.instance + 1, closed |-> FALSE]
    /\ last' = Outcome(c, "TodoApp", 0, "ok")
    /\ UNCHANGED <<store, next_id, lazy_map, entity, seen, pc, call, queue, coll>>

\* Concurrent callers of an application that is closed and constructed anew.
NextLifecycle ==
    \/ \E c \in Clients, user_id \in Owners : start_todo_list(c, user_id)
    \/ \E c \in Clients, id \in ListIds, item \in Items : add_todo_item(c, id, item)
    \/ \E c \in Clients, id \in ListIds : discard_todo_list(c, id)
    \/ \E c \in Clients : service_save(c)
    \/ \E c \in Clients : Projection(c)
    \/ \E c \in Clients : close(c)
    \/ \E c \in Clients : TodoApp(c)

SpecLifecycle == Init /\ [][NextLifecycle]_vars

----------------------------------------------------------------------------
\* Vocabulary of the properties.

\* The owner a list was started for.
OwnerOf(st, id) ==
    (CHOOSE e \in st : e.cls = "Started" /\ e.originator_id = id).user_id

IsStarted(st, id) == \E e \in st : e.cls = "Started" /\ e.originator_id = id

IsDiscarded(st, id) == \E e \in st : e.cls = "Discarded" /\ e.originator_id = id

StreamOf(st, id) == {e \in st : e.originator_id = id}

OriginatorIds == ListIds \cup {make_user_list_collection_id(u) : u \in Owners}

ItemServices == {"add_todo_item", "update_todo_item", "discard_todo_item"}

AggregateCommands == {"add_item", "update_item", "discard_item", "discard"}

\* Client c held a TodoList object and has issued a command in this step.
CommandStep(c) == last'.client = c /\ last'.op \in AggregateCommands

\* The object client c holds reflects every committed event of its list and
\* has nothing staged: every command issued on it was saved.
InSync(c) ==
    /\ entity[c].kind = "TodoList"
    /\ entity[c].pending_events = <<>>
    /\ pc[c] = "idle"
    /\ seen[c] = Cardinality(StreamOf(store, entity[c].id))

----------------------------------------------------------------------------
C2_DiscardRemovesFromCollection ==
    (last.op = "discard_todo_list" /\ last.res = "ok")
       => last.id \notin get_todo_list_ids(store, OwnerOf(store, last.id))

\* C3: two services that loaded one list at the same version stamp their
\* events with the same sequence number; a save whose position is taken
\* raises ConcurrencyError and leaves the store as it was, a save whose
\* position is free commits its event; so no position is ever written twice.
C3_Stamped ==
    \A c, d \in Clients :
       (/\ pc[c] = "save" /\ pc[d] = "save"
        /\ entity[c].id = entity[d].id /\ seen[c] = seen[d])
          => /\ entity[c].pending_events[1].originator_version = seen[c]
             /\ entity[d].pending_events[1].originator_version = seen[c]

C3_Unique ==
    \A e, f \in store :
       (e.originator_id = f.originator_id
          /\ e.originator_version = f.originator_version) => e = f

C3_SaveStep ==
    \A c \in Clients :
       (pc[c] = "save" /\ pc'[c] # "save")
          => LET b == entity[c].pending_events[1]
                 taken == \E e \in store :
                             /\ e.originator_id = b.originator_id
                             /\ e.originator_version = b.originator_version
             IN  IF taken
                 THEN /\ store' = store
                      /\ last' = Outcome(c, call[c], b.originator_id, "ConcurrencyError")
                 ELSE /\ b \in store'
                      /\ last'.res # "ConcurrencyError"

C3_ExactlyOneAppend == [](C3_Stamped /\ C3_Unique) /\ [][C3_SaveStep]_vars

C3_Witness ==
    /\ last.op \in ItemServices
    /\ last.res = "ConcurrencyError"
    /\ \E c \in Clients : last.client # c /\ call[c] = "none"

\* C4: a command issued on a TodoList object that has been discarded fails:
\* it stages nothing and leaves the object as it was.
C4_CommandAfterDiscardFails ==
    [][\A c \in Clients :
          (entity[c].is_discarded /\ CommandStep(c))
             => (last'.res # "ok" /\ entity'[c] = entity[c])]_vars

C9_IndexWithinBounds ==
    (last.op \in {"update_item", "discard_item"} /\ last.res = "ok")
       => LET e == entity[last.client]
              ev == e.pending_events[Len(e.pending_events)]
              before == IF ev.cls = "ItemDiscarded" THEN Len(e.items) + 1 ELSE Len(e.items)
          IN  0 <= ev.index /\ ev.index < before

\* C10: get_todo_items is the fold of the committed commands over the empty
\* list: a started list has no items, ItemAdded appends its item at the end,
\* ItemUpdated replaces position index and nothing else, ItemDiscarded
\* removes position index and keeps the order of the rest.
FoldPos(s, ev) == IF ev.index >= 0 THEN ev.index + 1 ELSE Len(s) + ev.index + 1

FoldCommand(s, ev) ==
    CASE ev.cls = "ItemAdded" -> s \o <<ev.item>>
      [] ev.cls = "ItemUpdated" ->
            SubSeq(s, 1, FoldPos(s, ev) - 1) \o <<ev.item>>
               \o SubSeq(s, FoldPos(s, ev) + 1, Len(s))
      [] ev.cls = "ItemDiscarded" ->
            SubSeq(s, 1, FoldPos(s, ev) - 1) \o SubSeq(s, FoldPos(s, ev) + 1, Len(s))
      [] OTHER -> s

RECURSIVE FoldCommands(_, _)
FoldCommands(s, events) ==
    IF events = <<>> THEN s
    ELSE FoldCommands(FoldCommand(s, Head(events)), Tail(events))

C10_Started ==
    \A id \in ListIds :
       (IsStarted(store, id) /\ Cardinality(StreamOf(store, id)) = 1)
          => get_todo_items(store, id) = <<>>

C10_Committed ==
    \A id \in ListIds :
       LET new == StreamOf(store', id) \ StreamOf(store, id)
       IN  (new # {} /\ \A e \in new : e.cls \notin {"Started", "Discarded"})
              => get_todo_items(store', id)
                    = FoldCommands(get_todo_items(store, id), SortByVersion(new))

C10_ItemsAreFoldOfCommands == []C10_Started /\ [][C10_Committed]_vars

C10_Witness ==
    \E id \in ListIds :
       /\ get_todo_items(store, id) = <<2>>
       /\ \E e \in StreamOf(store, id) :
             e.cls = "ItemAdded" /\ e.item = 1 /\ e.originator_version = 1
       /\ \E e \in StreamOf(store, id) :
             e.cls = "ItemDiscarded" /\ e.index = 0 /\ e.originator_version = 3

----------------------------------------------------------------------------
\* Vocabulary of the steps.

CollectionOf(user_id) == make_user_list_collection_id(user_id)

\* Client c has taken this step.
Acting(c) ==
    pc'[c] # pc[c] \/ queue'[c] # queue[c] \/ entity'[c] # entity[c] \/ last'.client = c

\* The id of the list the step of client c is about: the list of the event
\* the policy handles, of the event just published, or of the object saved.
OpList(c) ==
    IF queue[c] # <<>> THEN Head(queue[c]).originator_id
    ELSE IF queue'[c] # <<>> THEN Head(queue'[c]).originator_id
    ELSE IF entity[c].kind = "TodoList" THEN entity[c].id
    ELSE entity'[c].id

\* C11: distinct owners have distinct collection ids, and a step of an
\* operation on a list of owner A (or on no started list at all) appends
\* nothing to the collection of another owner B and leaves
\* get_todo_list_ids(B) as it was.
C11_DistinctIds ==
    \A a, b \in Owners : a # b => CollectionOf(a) # CollectionOf(b)

C11_Frame ==
    \A c \in Clients, b \in Owners :
       (/\ Acting(c)
        /\ IsStarted(store', OpList(c)) => OwnerOf(store', OpList(c)) # b)
          => /\ StreamOf(store', CollectionOf(b)) = StreamOf(store, CollectionOf(b))
             /\ get_todo_list_ids(store', b) = get_todo_list_ids(store, b)

C11_OwnersAreIndependent == []C11_DistinctIds /\ [][C11_Frame]_vars

C11_Witness ==
    \E a, b \in Owners :
       /\ a # b
       /\ get_todo_list_ids(store, a) = {}
       /\ \E e \in store :
             e.cls = "Collection.ItemRemoved" /\ e.originator_id = CollectionOf(a)
       /\ get_todo_list_ids(store, b) # {}
       /\ last.op = "discard_todo_list" /\ last.res = "ok"

\* C12: save() on a list that was just loaded, with no command issued, is a
\* no-op: nothing is appended to the store, no handler of the policy is
\* started, save() returns normally, the object is as it was and every
\* owner's collection is unchanged.
C12_SaveOfLoadedIsNoOp ==
    [][\A c \in Clients :
          (/\ last = Outcome(c, "load", entity[c].id, "ok")
           /\ last'.client = c /\ last'.op = "save")
             => /\ store' = store
                /\ last'.res = "ok"
                /\ pc'[c] = "idle" /\ queue'[c] = <<>>
                /\ entity'[c] = entity[c]
                /\ \A u \in Owners :
                      get_todo_list_ids(store', u) = get_todo_list_ids(store, u)]_vars

\* save() has returned on a list whose stream holds its Started event only:
\* the save had nothing to commit.
C12_Witness ==
    /\ last.op = "save" /\ last.res = "ok"
    /\ entity[last.client].id = last.id
    /\ Cardinality(StreamOf(store, last.id)) = 1
    /\ entity[last.client] = ReplayTodoList(store, last.id)
    /\ last.id \in get_todo_list_ids(store, OwnerOf(store, last.id))

ProjectionSteps == {"add_load", "add_register", "add_item", "remove_load", "remove_item"}

\* C13: once TodoApp.close() was called no handler of that application is
\* subscribed, the two handlers of its projection policy included (the
\* handlers subscribed are those of the application constructed last, while
\* it is open); and a Started or Discarded event published while the
\* application is closed starts no handler and changes no collection.
C13_Unsubscribed ==
    \A s \in registry : s[1] = app.instance /\ ~app.closed

C13_NoReaction ==
    \A c \in Clients :
       (app.closed /\ pc[c] \in {"idle", "save"} /\ Acting(c))
          => /\ pc'[c] \notin ProjectionSteps
             /\ \A u \in Owners :
                   /\ StreamOf(store', CollectionOf(u)) = StreamOf(store, CollectionOf(u))
                   /\ get_todo_list_ids(store', u) = get_todo_list_ids(store, u)

C13_ClosedPolicyIsSilent == []C13_Unsubscribed /\ [][C13_NoReaction]_vars

\* discard_todo_list has returned normally on a closed application: the list
\* is still a member of its owner's collection.
C13_Witness ==
    /\ app.closed
    /\ last.op = "discard_todo_list" /\ last.res = "ok"
    /\ IsStarted(store, last.id)
    /\ last.id \in get_todo_list_ids(store, OwnerOf(store, last.id))
    /\ \A s \in registry : s[2] \notin PolicyHandlers

\* C14: a command that succeeds (add_item, update_item, discard_item,
\* discard) stages exactly one event after those already staged, stamped
\* with the id of the object and with its version before the command, and
\* leaves the version one higher.
C14_OneEventPerCommand ==
    [][\A c \in Clients :
          (CommandStep(c) /\ last'.res = "ok")
             => LET before == entity[c]
                    after == entity'[c]
                    n == Len(before.pending_events)
                IN  /\ Len(after.pending_events) = n + 1
                    /\ SubSeq(after.pending_events, 1, n) = before.pending_events
                    /\ after.pending_events[n + 1].originator_id = before.id
                    /\ after.pending_events[n + 1].originator_version = before.version
                    /\ after.version = before.version + 1]_vars

\* C15: a command that fails (update_item or discard_item with an index the
\* list rejects) leaves the items, the version and the staged events of the
\* object exactly as they were, and the event store unchanged.
C15_FailedCommandChangesNothing ==
    [][\A c \in Clients :
          (CommandStep(c) /\ last'.res # "ok")
             => /\ entity'[c].items = entity[c].items
                /\ entity'[c].version = entity[c].version
                /\ entity'[c].pending_events = entity[c].pending_events
                /\ entity'[c] = entity[c]
                /\ store' = store]_vars

C15_Witness ==
    /\ last.op \in {"update_item", "discard_item"}
    /\ last.res = "IndexError"
    /\ entity[last.client].items # <<>>
    /\ entity[last.client].pending_events # <<>>
    /\ entity[last.client].version
          = seen[last.client] + Len(entity[last.client].pending_events)

\* C16: the policy handles a batch from one save() event by event: when
\* save() has returned normally, the list of every Discarded event of the
\* batch is removed from its owner's collection, whatever other events the
\* batch holds.  Stated for an eager map(); a lazy one handles no batch (C2).
C16_BatchHandledPerEvent ==
    (/\ ~lazy_map
     /\ last.op = "save" /\ last.res = "ok"
     /\ IsDiscarded(store, last.id))
       => last.id \notin get_todo_list_ids(store, OwnerOf(store, last.id))

\* C17: an event a projection handler is handling, or has still to handle,
\* is committed already; and when a handler raises, the exception ends the
\* call that published the event (start_todo_list, a service or save) while
\* the store keeps everything written: the triggering event stays readable.
C17_CommittedBeforeHandled ==
    \A c \in Clients :
       pc[c] \in ProjectionSteps
          => \A k \in 1..Len(queue[c]) : queue[c][k] \in store

C17_HandlerFailure ==
    \A c \in Clients :
       (pc[c] \in ProjectionSteps /\ last'.client = c /\ last'.res # "ok")
          => /\ last'.op = call[c] /\ pc'[c] = "idle"
             /\ store' = store
             /\ Head(queue[c]) \in store'
             /\ Head(queue[c])
                   \in SeqToSet(GetDomainEvents(store', Head(queue[c]).originator_id))

C17_CommitSurvivesHandlerFailure ==
    []C17_CommittedBeforeHandled /\ [][C17_HandlerFailure]_vars

\* start_todo_list has raised out of add_list_to_collection: the list is
\* started and loads, and its owner's collection does not hold it.
C17_Witness ==
    /\ last.op = "start_todo_list" /\ last.res = "ConcurrencyError"
    /\ ReplayTodoList(store, last.id).kind = "TodoList"
    /\ last.id \notin get_todo_list_ids(store, OwnerOf(store, last.id))

----------------------------------------------------------------------------
\* Concurrent callers of the repository and of the aggregate: each starts
\* lists as an owner of its own, loads any list, adds items or discards on
\* its own object, and saves.
NextObjects ==
    \/ \E c \in Clients : start_todo_list(c, c)
    \/ \E c \in Clients, id \in ListIds : Load(c, id)
    \/ \E c \in Clients, item \in Items : add_item(c, item)
    \/ \E c \in Clients : discard(c)
    \/ \E c \in Clients : save(c)
    \/ \E c \in Clients : Projection(c)

SpecObjects == Init /\ [][NextObjects]_vars

C19_NoPhantomMembers ==
    \A u \in Owners :
       \A id \in get_todo_list_ids(store, u) :
          \E e \in store :
             e.cls = "Started" /\ e.originator_id = id /\ e.user_id = u

C19_Witness ==
    /\ \A u \in Owners : get_todo_list_ids(store, u) # {}
    /\ \A c \in Clients : pc[c] = "idle"
    /\ \E id \in ListIds : IsDiscarded(store, id)

\* C20: once no call is in progress, every todo list whose Started event is
\* committed and which has no committed Discarded event is a member of its
\* owner's collection.
C20_NoLostMembers ==
    (\A c \in Clients : pc[c] = "idle")
       => \A id \in ListIds :
             (IsStarted(store, id) /\ ~IsDiscarded(store, id))
                => id \in get_todo_list_ids(store, OwnerOf(store, id))

====
